---- MODULE Spec2Model ----
(***************************************************************************)
(* Model of ttmp/2025-04-14/jaeger-example.py: main() opens the            *)
(* 'main_process' span, calls say_hello(), which opens the 'say_hello'     *)
(* span, injects the trace context into the request headers and performs   *)
(* one HTTP GET.  The OpenTelemetry calls the script makes are modelled by *)
(* what the SDK does at each call site (start_as_current_span / use_span,  *)
(* Span.set_attribute / add_event / record_exception / set_status / end,   *)
(* BatchSpanProcessor.on_end, TraceContextTextMapPropagator.inject).       *)
(***************************************************************************)
EXTENDS Integers, Sequences, FiniteSets, TLC

VARIABLES
    pc,          \* the statement the main thread executes next
    spans,       \* the two spans of the program, by name
    current,     \* the span the context holds as current ("NONE": none)
    tokens,      \* per scope, the current span saved by attach()
    headers,     \* say_hello's headers dict
    httpOutcome, \* what requests.get did: pending, a response, or an exception
    eHello,      \* say_hello's `e` (line 52)
    retval,      \* the value say_hello returns (line 51)
    exc,         \* the exception propagating out of say_hello
    eMain,       \* main's `e` (line 71)
    result,      \* main's `result` (line 69)
    queue,       \* BatchSpanProcessor's queue of ended spans
    exported,    \* the spans handed to the exporter, in order
    warnings     \* number of SDK warnings logged for calls on an ended span

vars == <<pc, spans, current, tokens, headers, httpOutcome, eHello, retval,
          exc, eMain, result, queue, exported, warnings>>

\* ------------------------------------------------------------------ bounds
\* Number of distinct identifiers the id generator may draw.
MaxIds == 2
\* Spacing of the identifiers drawn (0xABCD), so that several hex digits vary.
IdStep == 43981
\* Number of distinct exception classes requests.get may raise.
MaxExc == 2
\* Number of distinct HTTP status codes a response may carry.
MaxCodes == 2

\* --------------------------------------------------------- program constants
\* result[:100]
SliceLen == 100
\* traceparent field widths written by inject: format(trace_id, "032x"), "016x"
TraceIdHexLen == 32
SpanIdHexLen == 16

\* ------------------------------------------------------------------ values
None == <<>>
Some(x) == <<x>>

SpanNames == {"main_process", "say_hello"}
Ids == {k * IdStep : k \in 1..MaxIds}
Exceptions == {[type |-> "RequestException", id |-> k] : k \in 1..MaxExc}
StatusCodes == {200 + 100 * (k - 1) : k \in 1..MaxCodes}
LongText == [i \in 1..(SliceLen + 1) |-> "x"]
Texts == {<<>>, <<"h", "i">>, LongText}

UnsetStatus == [status_code |-> "UNSET", description |-> None]
NoSpan == [state |-> "NONE", trace_id |-> 0, span_id |-> 0, parent |-> None,
           sampled |-> FALSE, attributes |-> <<>>, events |-> <<>>,
           status |-> UnsetStatus]

\* ------------------------------------------------------- SDK span operations
\* A span operation yields the span after the call and the warnings logged.
Res(s, w) == [span |-> s, warn |-> w]

IsRecording(s) == s.state = "ACTIVE"

\* span.set_attribute(key, value): last write wins; warning and no change when ended
SetAttribute(s, key, value) ==
    IF s.state = "ENDED" THEN Res(s, 1)
    ELSE Res([s EXCEPT !.attributes = (key :> value) @@ s.attributes], 0)

\* span.add_event(name, attributes): appended; warning and no change when ended
AddEvent(s, name, attributes) ==
    IF s.state = "ENDED" THEN Res(s, 1)
    ELSE Res([s EXCEPT !.events =
                 Append(s.events, [name |-> name, attributes |-> attributes])], 0)

\* span.record_exception(e): an "exception" event; the status is left alone
RecordException(s, e) ==
    AddEvent(s, "exception", ("exception.type" :> e.type) @@ ("exception.id" :> e.id))

\* span.set_status(Status(StatusCode.ERROR, description)), the only status the
\* program sets: warning and no change when ended, no change when already OK
SetStatusError(s, description) ==
    IF s.state = "ENDED" THEN Res(s, 1)
    ELSE IF s.status.status_code = "OK" THEN Res(s, 0)
    ELSE Res([s EXCEPT !.status = [status_code |-> "ERROR",
                                    description |-> description]], 0)

\* span.end(): a span that is already ended is left alone, with a warning
End(s) ==
    IF s.state = "ENDED" THEN Res(s, 1)
    ELSE Res([s EXCEPT !.state = "ENDED"], 0)

\* Variant: no span processor is registered, so an ended span is never queued.
OnEndNoProcessor(q, name, s) == q

\* BatchSpanProcessor.on_end(span): sampled spans are queued for export
OnEnd(q, name, s) == IF s.sampled THEN Append(q, name) ELSE q

SpanContext(s) == [trace_id |-> s.trace_id, span_id |-> s.span_id, sampled |-> s.sampled]

\* Variant: the span is started without looking at the current span.
StartSpanDetached(parentName, newTrace, newSpan) ==
    [state |-> "ACTIVE", trace_id |-> newTrace, span_id |-> newSpan,
     parent |-> None, sampled |-> TRUE,
     attributes |-> <<>>, events |-> <<>>, status |-> UnsetStatus]

\* tracer.start_span(name): the parent is the current span of the context; a
\* span with no parent starts a new trace, a child takes its parent's trace id
StartSpan(parentName, newTrace, newSpan) ==
    LET hasParent == parentName # "NONE" /\ spans[parentName].state # "NONE"
    IN [state |-> "ACTIVE",
        trace_id |-> IF hasParent THEN spans[parentName].trace_id ELSE newTrace,
        span_id |-> newSpan,
        parent |-> IF hasParent THEN Some(SpanContext(spans[parentName])) ELSE None,
        sampled |-> IF hasParent THEN spans[parentName].sampled ELSE TRUE,
        attributes |-> <<>>, events |-> <<>>, status |-> UnsetStatus]

\* ------------------------------------------------------------ propagation
HexDigits == <<"0", "1", "2", "3", "4", "5", "6", "7",
               "8", "9", "a", "b", "c", "d", "e", "f">>

\* format(n, "0<w>x"): n in lower-case hexadecimal, zero-padded to w digits
RECURSIVE ToHex(_, _)
ToHex(n, w) ==
    IF w = 0 THEN <<>>
    ELSE ToHex(n \div 16, w - 1) \o <<HexDigits[(n % 16) + 1]>>

\* the traceparent value: "00-<trace id>-<span id>-<flags>"
TraceParent(ctx) ==
    <<"0", "0", "-">> \o ToHex(ctx.trace_id, TraceIdHexLen) \o <<"-">>
        \o ToHex(ctx.span_id, SpanIdHexLen) \o <<"-">>
        \o ToHex(IF ctx.sampled THEN 1 ELSE 0, 2)

\* Variant: the context written is that of the span saved by the innermost
\* attach(), i.e. of the enclosing span.
InjectEnclosing(hdrs, cur) ==
    IF cur = "NONE" \/ tokens[cur] = "NONE" THEN hdrs
    ELSE ("traceparent" :> TraceParent(SpanContext(spans[tokens[cur]]))) @@ hdrs

\* TraceContextTextMapPropagator().inject(headers): writes the context of the
\* current span of the context; nothing is written when there is none
Inject(hdrs, cur) ==
    IF cur = "NONE" \/ spans[cur].state = "NONE" THEN hdrs
    ELSE ("traceparent" :> TraceParent(SpanContext(spans[cur]))) @@ hdrs

\* ------------------------------------------------------------ scoped spans
\* Variant: end_on_exit=False, the span is not ended when the scope is left.
UseSpanExitNoEnd(s, e) ==
    LET r1 == IF e # None /\ IsRecording(s) THEN RecordException(s, e[1]) ELSE Res(s, 0)
        r2 == IF e # None /\ IsRecording(s)
              THEN SetStatusError(r1.span, Some(e[1].type)) ELSE r1
    IN Res(r2.span, r1.warn + r2.warn)

\* Variant: the span is ended first and the exception is recorded afterwards.
UseSpanExitEndFirst(s, e) ==
    LET r0 == End(s)
        r1 == IF e # None THEN RecordException(r0.span, e[1]) ELSE Res(r0.span, 0)
        r2 == IF e # None THEN SetStatusError(r1.span, Some(e[1].type))
              ELSE Res(r1.span, 0)
    IN Res(r2.span, r0.warn + r1.warn + r2.warn)

\* use_span's exit with exception e in flight (None: none): a recording span
\* gets record_exception(e) and set_status(ERROR, description); then span.end()
UseSpanExit(s, e) ==
    LET r1 == IF e # None /\ IsRecording(s) THEN RecordException(s, e[1]) ELSE Res(s, 0)
        r2 == IF e # None /\ IsRecording(s)
              THEN SetStatusError(r1.span, Some(e[1].type)) ELSE r1
        r3 == End(r2.span)
    IN Res(r3.span, r1.warn + r2.warn + r3.warn)

\* Variant: the token is dropped and the context is left as it is.
DetachMissing(name) == current

\* context.detach(token): the current span is again what attach() saved
Detach(name) == tokens[name]

\* Variant: the scope swallows the exception in flight.
ReraiseSuppressed(e) == None

\* use_span's bare `raise`: the exception in flight leaves the scope as it is
Reraise(e) == e

\* result[:100] + "..."
Truncate(text) ==
    SubSeq(text, 1, IF Len(text) < SliceLen THEN Len(text) ELSE SliceLen)
        \o <<".", ".", ".">>

Init ==
    /\ pc = "L60"
    /\ spans = [n \in SpanNames |-> NoSpan]
    /\ current = "NONE"
    /\ tokens = [n \in SpanNames |-> "NONE"]
    /\ headers = <<>>
    /\ httpOutcome = [kind |-> "pending"]
    /\ eHello = None
    /\ retval = None
    /\ exc = None
    /\ eMain = None
    /\ result = None
    /\ queue = <<>>
    /\ exported = <<>>
    /\ warnings = 0

\* line 60: tracer = init_tracer("jaeger-example")
InitTracer ==
    /\ pc = "L60"
    /\ pc' = "L62"
    /\ UNCHANGED <<spans, current, tokens, headers, httpOutcome, eHello, retval,
                   exc, eMain, result, queue, exported, warnings>>

\* with tracer.start_as_current_span(name): start the span, attach it
EnterSpan(name, newTrace, newSpan) ==
    /\ spans' = [spans EXCEPT ![name] = StartSpan(current, newTrace, newSpan)]
    /\ tokens' = [tokens EXCEPT ![name] = current]
    /\ current' = name

\* leaving the with block of span `name` with e in flight
ExitSpan(name, e) ==
    LET r == UseSpanExit(spans[name], e)
    IN /\ current' = Detach(name)
       /\ spans' = [spans EXCEPT ![name] = r.span]
       /\ warnings' = warnings + r.warn
       /\ queue' = IF spans[name].state # "ENDED" /\ r.span.state = "ENDED"
                   THEN OnEnd(queue, name, r.span) ELSE queue

\* a span method called on span `name`
Call(name, r) ==
    /\ spans' = [spans EXCEPT ![name] = r.span]
    /\ warnings' = warnings + r.warn

\* line 62: with tracer.start_as_current_span("main_process") as span
StartMain ==
    /\ pc = "L62"
    /\ \E t \in Ids, s \in Ids : EnterSpan("main_process", t, s)
    /\ pc' = "L64"
    /\ UNCHANGED <<headers, httpOutcome, eHello, retval, exc, eMain, result,
                   queue, exported, warnings>>

\* line 64: span.add_event("Starting application")
EventStarting ==
    /\ pc = "L64"
    /\ Call("main_process", AddEvent(spans["main_process"], "Starting application", <<>>))
    /\ pc' = "L66"
    /\ UNCHANGED <<current, tokens, headers, httpOutcome, eHello, retval, exc,
                   eMain, result, queue, exported>>

\* line 66: time.sleep(0.1)
Sleep1 ==
    /\ pc = "L66"
    /\ pc' = "L69"
    /\ UNCHANGED <<spans, current, tokens, headers, httpOutcome, eHello, retval,
                   exc, eMain, result, queue, exported, warnings>>

\* lines 69, 38: say_hello(tracer) is entered and opens the 'say_hello' span
StartHello ==
    /\ pc = "L69"
    /\ \E t \in Ids, s \in Ids : EnterSpan("say_hello", t, s)
    /\ pc' = "L40"
    /\ UNCHANGED <<headers, httpOutcome, eHello, retval, exc, eMain, result,
                   queue, exported, warnings>>

\* lines 40-42: the three set_attribute calls of say_hello
AttrMethod ==
    /\ pc = "L40"
    /\ Call("say_hello", SetAttribute(spans["say_hello"], "http.method", "GET"))
    /\ pc' = "L41"
    /\ UNCHANGED <<current, tokens, headers, httpOutcome, eHello, retval, exc,
                   eMain, result, queue, exported>>

AttrUrl ==
    /\ pc = "L41"
    /\ Call("say_hello", SetAttribute(spans["say_hello"], "http.url",
                                      "https://www.jaegertracing.io/"))
    /\ pc' = "L42"
    /\ UNCHANGED <<current, tokens, headers, httpOutcome, eHello, retval, exc,
                   eMain, result, queue, exported>>

AttrKind ==
    /\ pc = "L42"
    /\ Call("say_hello", SetAttribute(spans["say_hello"], "span.kind", "client"))
    /\ pc' = "L45"
    /\ UNCHANGED <<current, tokens, headers, httpOutcome, eHello, retval, exc,
                   eMain, result, queue, exported>>

\* lines 45-46: headers = {}; TraceContextTextMapPropagator().inject(headers)
InjectHeaders ==
    /\ pc = "L45"
    /\ headers' = Inject(<<>>, current)
    /\ pc' = "L49"
    /\ UNCHANGED <<spans, current, tokens, httpOutcome, eHello, retval, exc,
                   eMain, result, queue, exported, warnings>>

\* line 49: requests.get(...) returns a response
GetOk ==
    /\ pc = "L49"
    /\ \E c \in StatusCodes, x \in Texts :
          httpOutcome' = [kind |-> "ok", status_code |-> c, text |-> x]
    /\ pc' = "L50"
    /\ UNCHANGED <<spans, current, tokens, headers, eHello, retval, exc, eMain,
                   result, queue, exported, warnings>>

\* lines 49, 52: requests.get(...) raises; `except Exception as e` binds it
GetRaises ==
    /\ pc = "L49"
    /\ \E e \in Exceptions :
          /\ httpOutcome' = [kind |-> "error", exc |-> e]
          /\ eHello' = Some(e)
    /\ pc' = "L54"
    /\ UNCHANGED <<spans, current, tokens, headers, retval, exc, eMain, result,
                   queue, exported, warnings>>

\* line 50: span.set_attribute(HTTP_STATUS_CODE, response.status_code)
AttrStatusCode ==
    /\ pc = "L50"
    /\ Call("say_hello", SetAttribute(spans["say_hello"], "http.status_code",
                                      httpOutcome.status_code))
    /\ pc' = "L51"
    /\ UNCHANGED <<current, tokens, headers, httpOutcome, eHello, retval, exc,
                   eMain, result, queue, exported>>

\* line 51: return response.text
ReturnText ==
    /\ pc = "L51"
    /\ retval' = Some(httpOutcome.text)
    /\ pc' = "X38"
    /\ UNCHANGED <<spans, current, tokens, headers, httpOutcome, eHello, exc,
                   eMain, result, queue, exported, warnings>>

\* line 54: span.record_exception(e)
HelloRecord ==
    /\ pc = "L54"
    /\ Call("say_hello", RecordException(spans["say_hello"], eHello[1]))
    /\ pc' = "L55"
    /\ UNCHANGED <<current, tokens, headers, httpOutcome, eHello, retval, exc,
                   eMain, result, queue, exported>>

\* Variant: line 55 is missing, the handler goes straight to `raise`.
HelloSetErrorMissing ==
    /\ pc = "L55"
    /\ pc' = "L56"
    /\ UNCHANGED <<spans, current, tokens, headers, httpOutcome, eHello, retval,
                   exc, eMain, result, queue, exported, warnings>>

\* line 55: span.set_status(trace.Status(trace.StatusCode.ERROR))
HelloSetError ==
    /\ pc = "L55"
    /\ Call("say_hello", SetStatusError(spans["say_hello"], None))
    /\ pc' = "L56"
    /\ UNCHANGED <<current, tokens, headers, httpOutcome, eHello, retval, exc,
                   eMain, result, queue, exported>>

\* line 56: raise
HelloRaise ==
    /\ pc = "L56"
    /\ exc' = eHello
    /\ pc' = "X38"
    /\ UNCHANGED <<spans, current, tokens, headers, httpOutcome, eHello, retval,
                   eMain, result, queue, exported, warnings>>

\* the with block of line 38 is left; say_hello returns to line 69, or its
\* exception reaches `except Exception as e` of line 71
ExitHello ==
    /\ pc = "X38"
    /\ ExitSpan("say_hello", exc)
    /\ IF Reraise(exc) # None
       THEN /\ eMain' = Reraise(exc)
            /\ pc' = "L72"
            /\ UNCHANGED result
       ELSE /\ result' = retval
            /\ pc' = "L70"
            /\ UNCHANGED eMain
    /\ exc' = None
    /\ UNCHANGED <<tokens, headers, httpOutcome, eHello, retval, exported>>

\* line 70: span.add_event("Request successful", {"value": result[:100] + "..."})
EventSuccess ==
    /\ pc = "L70"
    /\ result # None
    /\ Call("main_process", AddEvent(spans["main_process"], "Request successful",
                                     "value" :> Truncate(result[1])))
    /\ pc' = "L75"
    /\ UNCHANGED <<current, tokens, headers, httpOutcome, eHello, retval, exc,
                   eMain, result, queue, exported>>

\* line 72: span.record_exception(e)
MainRecord ==
    /\ pc = "L72"
    /\ Call("main_process", RecordException(spans["main_process"], eMain[1]))
    /\ pc' = "L73"
    /\ UNCHANGED <<current, tokens, headers, httpOutcome, eHello, retval, exc,
                   eMain, result, queue, exported>>

\* Variant: line 73 is missing, the handler only records the exception.
MainSetErrorMissing ==
    /\ pc = "L73"
    /\ pc' = "L75"
    /\ UNCHANGED <<spans, current, tokens, headers, httpOutcome, eHello, retval,
                   exc, eMain, result, queue, exported, warnings>>

\* line 73: span.set_status(trace.Status(trace.StatusCode.ERROR))
MainSetError ==
    /\ pc = "L73"
    /\ Call("main_process", SetStatusError(spans["main_process"], None))
    /\ pc' = "L75"
    /\ UNCHANGED <<current, tokens, headers, httpOutcome, eHello, retval, exc,
                   eMain, result, queue, exported>>

\* line 75: time.sleep(0.1)
Sleep2 ==
    /\ pc = "L75"
    /\ pc' = "L76"
    /\ UNCHANGED <<spans, current, tokens, headers, httpOutcome, eHello, retval,
                   exc, eMain, result, queue, exported, warnings>>

\* line 76: span.add_event("Finished application")
EventFinished ==
    /\ pc = "L76"
    /\ Call("main_process", AddEvent(spans["main_process"], "Finished application", <<>>))
    /\ pc' = "X62"
    /\ UNCHANGED <<current, tokens, headers, httpOutcome, eHello, retval, exc,
                   eMain, result, queue, exported>>

\* the with block of line 62 is left and main() returns (line 82)
ExitMain ==
    /\ pc = "X62"
    /\ ExitSpan("main_process", exc)
    /\ pc' = "returned"
    /\ UNCHANGED <<tokens, headers, httpOutcome, eHello, retval, exc, eMain,
                   result, exported>>

\* BatchSpanProcessor's worker thread (line 31) hands the queued spans to the
\* exporter while the main thread runs
WorkerExport ==
    /\ pc \notin {"returned", "done"}
    /\ queue # <<>>
    /\ exported' = exported \o queue
    /\ queue' = <<>>
    /\ UNCHANGED <<pc, spans, current, tokens, headers, httpOutcome, eHello,
                   retval, exc, eMain, result, warnings>>

\* interpreter exit: the provider's shutdown flushes the processor (line 23)
Shutdown ==
    /\ pc = "returned"
    /\ exported' = exported \o queue
    /\ queue' = <<>>
    /\ pc' = "done"
    /\ UNCHANGED <<spans, current, tokens, headers, httpOutcome, eHello, retval,
                   exc, eMain, result, warnings>>

MainStep ==
    \/ InitTracer \/ StartMain \/ EventStarting \/ Sleep1 \/ StartHello
    \/ AttrMethod \/ AttrUrl \/ AttrKind \/ InjectHeaders
    \/ GetOk \/ GetRaises \/ AttrStatusCode \/ ReturnText
    \/ HelloRecord \/ HelloSetError \/ HelloRaise \/ ExitHello
    \/ EventSuccess \/ MainRecord \/ MainSetError \/ Sleep2 \/ EventFinished
    \/ ExitMain \/ Shutdown

Next == MainStep \/ WorkerExport

Spec == Init /\ [][Next]_vars

\* The main thread is never starved and every call it makes returns or raises.
FairSpec == Spec /\ WF_vars(MainStep)

\* ------------------------------------------------------------ extraction
HexValue(c) == CHOOSE v \in 0..15 : HexDigits[v + 1] = c

\* int(s, 16)
RECURSIVE FromHex(_)
FromHex(s) ==
    IF s = <<>> THEN 0
    ELSE 16 * FromHex(SubSeq(s, 1, Len(s) - 1)) + HexValue(s[Len(s)])

IsHex(s) == \A i \in 1..Len(s) : \E v \in 0..15 : HexDigits[v + 1] = s[i]

\* extract_context(headers): the Span Context a traceparent value of version
\* 00 carries; None when there is no value or it is malformed
Extract(hdrs) ==
    IF "traceparent" \notin DOMAIN hdrs THEN None
    ELSE LET h == hdrs["traceparent"]
             t0 == 4
             s0 == t0 + TraceIdHexLen + 1
             f0 == s0 + SpanIdHexLen + 1
         IN IF Len(h) # f0 + 1 THEN None
            ELSE LET version == SubSeq(h, 1, 2)
                     trace == SubSeq(h, t0, t0 + TraceIdHexLen - 1)
                     span == SubSeq(h, s0, s0 + SpanIdHexLen - 1)
                     flags == SubSeq(h, f0, f0 + 1)
                 IN IF \/ h[t0 - 1] # "-" \/ h[s0 - 1] # "-" \/ h[f0 - 1] # "-"
                       \/ ~IsHex(version) \/ ~IsHex(trace) \/ ~IsHex(span)
                       \/ ~IsHex(flags)
                       \/ version # <<"0", "0">>
                       \/ FromHex(trace) = 0 \/ FromHex(span) = 0
                    THEN None
                    ELSE Some([trace_id |-> FromHex(trace),
                               span_id |-> FromHex(span),
                               sampled |-> FromHex(flags) % 2 = 1])

\* ------------------------------------------------------------------ claims
Failed == httpOutcome.kind = "error"
Succeeded == httpOutcome.kind = "ok"
Hello == spans["say_hello"]
Main == spans["main_process"]
IsEnded(n) == spans[n].state = "ENDED"
StatusCode(n) == spans[n].status.status_code

\* the events of span s that record exception e
ExceptionEvents(s, e) ==
    {i \in 1..Len(s.events) :
        /\ s.events[i].name = "exception"
        /\ s.events[i].attributes["exception.id"] = e.id
        /\ s.events[i].attributes["exception.type"] = e.type}

Occurrences(q, n) == Cardinality({i \in 1..Len(q) : q[i] = n})

AfterHello == {"L70", "L72", "L73", "L75", "L76", "X62"}
InHello == {"L40", "L41", "L42", "L45", "L49", "L50", "L51", "L54", "L55",
            "L56", "X38"}
AfterMain == {"returned", "done"}

\* C1: in every execution of main(), whether requests.get returns or raises,
\* the 'say_hello' span and the 'main_process' span both eventually are ENDED.
C1_GuaranteedClosure == <>(IsEnded("say_hello") /\ IsEnded("main_process"))

C1_Witness == Failed /\ IsEnded("say_hello") /\ IsEnded("main_process")

\* C2: when requests.get raises inside the 'say_hello' scope, record_exception
\* is called on that span first, then set_status(ERROR), both while the span
\* is still open, and the caller of say_hello then catches that same error.
C2_RecordThenStatusThenReraise ==
    Failed =>
        /\ StatusCode("say_hello") = "ERROR"
              => ExceptionEvents(Hello, httpOutcome.exc) # {}
        /\ pc = "L54" => /\ Hello.state = "ACTIVE"
                         /\ ExceptionEvents(Hello, httpOutcome.exc) = {}
                         /\ StatusCode("say_hello") = "UNSET"
        /\ pc = "L55" => /\ Hello.state = "ACTIVE"
                         /\ ExceptionEvents(Hello, httpOutcome.exc) # {}
                         /\ StatusCode("say_hello") = "UNSET"
        /\ pc \in {"L56", "X38"} => /\ Hello.state = "ACTIVE"
                                    /\ StatusCode("say_hello") = "ERROR"
        /\ pc = "X38" => exc = Some(httpOutcome.exc)
        /\ IsEnded("say_hello") => /\ StatusCode("say_hello") = "ERROR"
                                   /\ eMain = Some(httpOutcome.exc)

C2_Witness ==
    /\ Failed /\ pc = "L72" /\ IsEnded("say_hello")
    /\ StatusCode("say_hello") = "ERROR" /\ eMain = Some(httpOutcome.exc)

\* C3: the scopes are transparent: the caller of say_hello observes exactly
\* the outcome of the request (the response text, or the very exception
\* requests.get raised), and main(), whose work handles the error inside the
\* 'main_process' scope, ends with no exception in flight.
C3_Transparent ==
    /\ eMain # None => Failed /\ eMain = Some(httpOutcome.exc)
    /\ result # None => Succeeded /\ result = Some(httpOutcome.text)
    /\ pc \in AfterHello \cup AfterMain =>
          /\ Failed => eMain # None
          /\ Succeeded => result # None
          /\ exc = None

C3_Witness == pc = "L72" /\ Failed /\ eMain = Some(httpOutcome.exc)

\* C4: when the request raises, each span, once ended, carries exactly one
\* exception event referencing that error and has status ERROR.
C4_OneExceptionEvent ==
    \A n \in SpanNames :
        Failed /\ IsEnded(n) =>
            /\ Cardinality(ExceptionEvents(spans[n], httpOutcome.exc)) = 1
            /\ StatusCode(n) = "ERROR"

\* C5: the 'say_hello' span's parent is the 'main_process' span, both carry
\* the same trace identifier, 'main_process' is a root, and 'main_process'
\* is the active, current span in the step that creates 'say_hello'.
C5_ParentIsActiveMain ==
    /\ [](/\ Main.state # "NONE" => Main.parent = None
          /\ Hello.state # "NONE" =>
                /\ Main.state # "NONE"
                /\ Hello.parent = Some(SpanContext(Main))
                /\ Hello.trace_id = Main.trace_id)
    /\ [][Hello.state = "NONE" /\ Hello'.state # "NONE" =>
            /\ current = "main_process"
            /\ Main.state = "ACTIVE"
            /\ Hello'.parent = Some(SpanContext(Main))]_vars

C5_Witness ==
    /\ pc = "L40" /\ Hello.state = "ACTIVE"
    /\ Hello.parent = Some(SpanContext(Main))
    /\ Hello.span_id # Main.span_id

\* C6: an ended span never changes again, and no span method of the program
\* is called on an ended span (no such call is dropped with a warning).
C6_EndedIsTerminal ==
    /\ [](warnings = 0)
    /\ [][\A n \in SpanNames : IsEnded(n) => spans'[n] = spans[n]]_vars

C6_Witness ==
    /\ pc = "L73" /\ IsEnded("say_hello")
    /\ Len(Main.events) = 2 /\ Len(Hello.events) = 2

C8_RoundTrip ==
    /\ [](pc \in (InHello \ {"L40", "L41", "L42", "L45"}) =>
             Extract(headers) = Some(SpanContext(Hello)))
    /\ [](Extract(headers) # None => Extract(headers) = Some(SpanContext(Hello)))
    /\ [][pc = "L45" => spans' = spans]_vars

C8_Witness ==
    /\ pc = "L49"
    /\ Extract(headers) = Some(SpanContext(Hello))
    /\ Hello.span_id # Main.span_id

C10_StackNesting ==
    /\ Hello.state # "NONE" => Main.state # "NONE"
    /\ IsEnded("main_process") => IsEnded("say_hello")
    /\ pc \in InHello => current = "say_hello" /\ Hello.state = "ACTIVE"
    /\ pc \in AfterHello =>
          /\ current = "main_process"
          /\ IsEnded("say_hello")
          /\ Main.state = "ACTIVE"
    /\ pc \in AfterMain => current = "NONE" /\ IsEnded("main_process")

C10_Witness ==
    /\ pc = "L72" /\ current = "main_process"
    /\ IsEnded("say_hello") /\ Main.state = "ACTIVE"
====
